---- MODULE Spec2Model ----
(***************************************************************************)
(* A model of UniversalTelegramBot (src/src/UniversalTelegramBot.cpp):     *)
(* the request/response engine over the injected Client transport, the     *)
(* update processor (getUpdates / processResult) with its watermark        *)
(* last_message_received, and the retrying send helpers.                   *)
(*                                                                         *)
(* The transport, the JSON library and the clock are collaborators: what   *)
(* they answer is an input of each action, drawn from small sets.          *)
(***************************************************************************)
EXTENDS Integers, Sequences, FiniteSets, TLC

VARIABLES
    connected,              \* client->connected()
    last_message_received,  \* the update watermark
    messages,               \* messages[0 .. HANDLE_MESSAGES-1]
    last_sent_message_id,
    call,                   \* the last public call: its name, inputs, trace and result
    hist,                   \* what the run has delivered so far
    millis,                 \* the clock: millis(), an unsigned long of 32 bits
    task,                   \* the locals of the call in progress, if it takes steps
    net                     \* the bytes the transport holds and will still receive

vars == <<connected, last_message_received, messages, last_sent_message_id, call, hist,
          millis, task, net>>

-----------------------------------------------------------------------------
(* Bounds of the model. *)

\* update ids the server hands out are 1 .. MaxId
MaxId == 3

\* how many oversized bodies in a row one getUpdates call is given
MaxSkips == 1

\* how many POSTs one sendPostMessage call is followed through
MaxPosts == 3

\* how many clock steps past its deadline a read is followed
MaxLate == 1

\* how many trips of its sending loop a call of the bot's API is given
MaxTrips == 2

\* how many characters the serialized JSON payload of a POST has at most
MaxJson == 12

\* how many full blocks of the buffer a multipart data source fills at most
MaxBlocks == 2

(* Configuration of the program. *)

\* capacity of messages[] and the limit= asked of the server
HANDLE_MESSAGES == 2

\* the constructor's maxMessageLength, in characters
maxMessageLength == 4

\* the fixed allowance of a read, in milliseconds
waitForResponse == 1500

Ids == 1 .. MaxId

-----------------------------------------------------------------------------
(* Values of the JSON document and of the record fields.  A value carries   *)
(* the path it was read from and the update it belongs to, so that a field  *)
(* filled from the wrong place or left over from another update shows.      *)

V(path, uid) == [p |-> path, u |-> uid]
Empty == V("", 0)         \* String ""
Null  == V("null", 0)     \* as<String>() of a missing member
Zero  == V("0", 0)        \* as<int>(), as<float>(), as<long>() of a missing member

TopKeys == {"message", "channel_post", "callback_query", "edited_message"}
SubKeys == {"text", "location", "document", "contact", "reply_to_message"}

\* One trace event of a call.
Ev(e, n) == [e |-> e, n |-> n]

Min(a, b) == IF a < b THEN a ELSE b

RECURSIVE SetMax(_)
SetMax(S) ==
    IF S = {} THEN 0
    ELSE LET x == CHOOSE y \in S : TRUE
             m == SetMax(S \ {x})
         IN IF x > m THEN x ELSE m

-----------------------------------------------------------------------------
(* The transport (Client).                                                  *)

\* client->connect(TELEGRAM_HOST, TELEGRAM_SSL_PORT)
ClientConnect(b, ok) ==
    [b EXCEPT !.connected = ok,
              !.log = Append(@, Ev("connect", IF ok THEN 1 ELSE 0))]

\* client->stop()
ClientStop(b) ==
    [b EXCEPT !.connected = FALSE, !.log = Append(@, Ev("stop", 0))]

\* client->stop() without asking client->connected() first
StopUnchecked(b) == ClientStop(b)

\* closeClient()
CloseClient(b) == IF b.connected THEN ClientStop(b) ELSE b

\* "Connect with api.telegram.org if not already connected"
EnsureConnected(b, x) ==
    IF ~b.connected THEN ClientConnect(b, x.canConnect) ELSE b

EmptyChars == << >>

\* the request is written, then readHTTPAnswer(body) fills the body
Exchange(b, x, verb) ==
    [bot  |-> [b EXCEPT !.log = @ \o <<Ev(verb, 0), Ev("read", Len(x.body.chars))>>],
     body |-> x.body]

NoBody == [chars |-> EmptyChars, error |-> TRUE, hasResult |-> FALSE,
           result |-> << >>, ok |-> FALSE, message_id |-> 0]

\* the request written without asking client->connected() again
RequestUnchecked(b1, x, verb) == Exchange(b1, x, verb)

\* if (client->connected()) { write the request; readHTTPAnswer(body); }
Request(b1, x, verb) ==
    IF b1.connected THEN Exchange(b1, x, verb) ELSE [bot |-> b1, body |-> NoBody]

\* sendGetToTelegram(command)
SendGetToTelegram(b, x) == Request(EnsureConnected(b, x), x, "writeGET")

\* sendPostToTelegram(command, payload)
SendPostToTelegram(b, x) == Request(EnsureConnected(b, x), x, "writePOST")

\* return body; with the closeClient() before it left out
ReturnOpen(r) == r

\* closeClient(); return body;
CloseAndReturn(r) == [bot |-> CloseClient(r.bot), body |-> r.body]

\* sendMultipartFormDataToTelegram(...)
SendMultipartFormDataToTelegram(b, x) ==
    CloseAndReturn(Request(EnsureConnected(b, x), x, "writeMULTIPART"))

-----------------------------------------------------------------------------
(* getUpdateIdFromResponse: the update id scraped from the raw text.        *)
(* A text is a sequence of characters; "CR" and "LF" are the line ends.     *)

Digits == {"0", "1", "2", "3", "4", "5", "6", "7", "8", "9"}

DigitVal(c) ==
    CASE c = "0" -> 0 [] c = "1" -> 1 [] c = "2" -> 2 [] c = "3" -> 3
      [] c = "4" -> 4 [] c = "5" -> 5 [] c = "6" -> 6 [] c = "7" -> 7
      [] c = "8" -> 8 [] OTHER -> 9

\* response.remove(response.indexOf("\n")): cut at the first LF, if any
RECURSIVE FirstLine(_)
FirstLine(chars) ==
    IF chars = << >> \/ Head(chars) = "LF" THEN << >>
    ELSE <<Head(chars)>> \o FirstLine(Tail(chars))

\* the digits from position pos on, up to the first character that is none
RECURSIVE DigitRun(_, _)
DigitRun(line, pos) ==
    IF pos > Len(line) \/ line[pos] \notin Digits THEN << >>
    ELSE <<line[pos]>> \o DigitRun(line, pos + 1)

\* updateId[i] = *str for the run, from i = 0: the rest of the buffer stays
Overwrite(buf, run) ==
    run \o (IF Len(buf) > Len(run) THEN SubSeq(buf, Len(run) + 1, Len(buf)) ELSE << >>)

\* the outer while: stop at the end or at CR, else step over one character and
\* copy the digits that follow it
RECURSIVE Scan(_, _, _)
Scan(line, pos, buf) ==
    IF pos > Len(line) \/ line[pos] = "CR" THEN buf
    ELSE LET run == DigitRun(line, pos + 1)
         IN  Scan(line, pos + 1 + Len(run), Overwrite(buf, run))

\* atol: the number the leading digits spell
RECURSIVE AtolAcc(_, _)
AtolAcc(buf, acc) ==
    IF buf = << >> \/ Head(buf) \notin Digits THEN acc
    ELSE AtolAcc(Tail(buf), 10 * acc + DigitVal(Head(buf)))

\* stack: what char updateId[20] holds before it is written (it is never
\* initialised nor terminated), up to its first non-digit
GetUpdateIdFromResponse(chars, stack) ==
    AtolAcc(Scan(FirstLine(chars), 1, stack), 0)

-----------------------------------------------------------------------------
(* The message records.                                                     *)

Slots == 0 .. (HANDLE_MESSAGES - 1)

BlankMessage ==
    [update_id |-> 0, type |-> "", text |-> Empty, from_id |-> Empty,
     from_name |-> Empty, date |-> Empty, chat_id |-> Empty, chat_title |-> Empty,
     message_id |-> Zero, longitude |-> Zero, latitude |-> Zero,
     reply_to_message_id |-> Zero, reply_to_text |-> Empty, query_id |-> Empty,
     contact_phone_number |-> Empty, contact_name |-> Empty, contact_id |-> Empty,
     hasDocument |-> FALSE, file_caption |-> Empty, file_name |-> Empty,
     file_path |-> Empty, file_size |-> Zero]

\* member `path` of result element el, read as<String>()
Str(el, present, path) == IF present THEN V(path, el.update_id) ELSE Null

\* member `path` of result element el, read as a number
Num(el, present, path) == IF present THEN V(path, el.update_id) ELSE Zero

\* getFile, once sendGetToTelegram has returned r: decode, close, fill in
GetFileAnswered(r, b1, slot, el) ==
    IF ~r.body.error /\ r.body.hasResult
    THEN [bot |-> [b1 EXCEPT !.messages[slot].file_path = V("result.file_path", el.update_id),
                             !.messages[slot].file_size = V("result.file_size", el.update_id)],
          ret |-> TRUE]
    ELSE [bot |-> b1, ret |-> FALSE]

GetFileClosed(r, slot, el) ==
    GetFileAnswered(r, CloseClient([r.bot EXCEPT !.log = Append(@, Ev("deserializeFile", 0))]),
                    slot, el)

\* getFile(file_path, file_size, file_id)
GetFile(b, slot, el) == GetFileClosed(SendGetToTelegram(b, el.fileX), slot, el)

\* the fields processResult clears before it decodes
ResetFields(m, uid) ==
    [m EXCEPT !.update_id = uid, !.text = Empty, !.from_id = Empty, !.from_name = Empty,
              !.longitude = Zero, !.latitude = Zero, !.reply_to_message_id = Zero,
              !.reply_to_text = Empty, !.query_id = Empty,
              !.contact_phone_number = Empty, !.contact_name = Empty,
              !.contact_id = Empty]

\* if (message.containsKey("reply_to_message"))
DecodeReply(m, el) ==
    IF "reply_to_message" \in el.sub
    THEN [m EXCEPT !.reply_to_message_id = V("message.reply_to_message.message_id", el.update_id),
                   !.reply_to_text = Str(el, "reply_text" \in el.sub, "message.reply_to_message.text")]
    ELSE m

\* if (getFile(...) == true) hasDocument = true; else hasDocument = false;
SetHasDocument(g, slot) == [g.bot EXCEPT !.messages[slot].hasDocument = g.ret]

\* the sub-key chain of a "message": text, else location, else document, else contact
DecodeMessageBody(b0, slot, el) ==
    IF "text" \in el.sub
    THEN [b0 EXCEPT !.messages[slot].text = V("message.text", el.update_id)]
    ELSE IF "location" \in el.sub
    THEN [b0 EXCEPT !.messages[slot].longitude = V("message.location.longitude", el.update_id),
                    !.messages[slot].latitude = V("message.location.latitude", el.update_id)]
    ELSE IF "document" \in el.sub
    THEN SetHasDocument(
             GetFile([b0 EXCEPT
                        !.messages[slot].file_caption = Str(el, "caption" \in el.sub, "message.caption"),
                        !.messages[slot].file_name = V("message.document.file_name", el.update_id)],
                     slot, el),
             slot)
    ELSE IF "contact" \in el.sub
    THEN [b0 EXCEPT !.messages[slot].contact_phone_number = V("message.contact.phone_number", el.update_id),
                    !.messages[slot].contact_name = V("message.contact.first_name", el.update_id),
                    !.messages[slot].contact_id = V("message.contact.user_id", el.update_id)]
    ELSE b0

\* the fields every "message" sets
DecodeMessageHead(m, el) ==
    [m EXCEPT !.type = "message",
              !.from_id = V("message.from.id", el.update_id),
              !.from_name = V("message.from.first_name", el.update_id),
              !.date = V("message.date", el.update_id),
              !.chat_id = V("message.chat.id", el.update_id),
              !.chat_title = Str(el, "title" \in el.sub, "message.chat.title"),
              !.hasDocument = FALSE,
              !.message_id = V("message.message_id", el.update_id)]

\* the branch of a "message" element
DecodeMessage(b, slot, el) ==
    [DecodeMessageBody([b EXCEPT !.messages[slot] = DecodeMessageHead(@, el)], slot, el)
        EXCEPT !.messages[slot] = DecodeReply(@, el)]

\* the branch of a "channel_post" element
DecodeChannelPost(b, slot, el) ==
    [b EXCEPT !.messages[slot] =
        [@ EXCEPT !.type = "channel_post",
                  !.text = Str(el, "text" \in el.sub, "channel_post.text"),
                  !.date = V("channel_post.date", el.update_id),
                  !.chat_id = V("channel_post.chat.id", el.update_id),
                  !.chat_title = Str(el, "title" \in el.sub, "channel_post.chat.title"),
                  !.message_id = V("channel_post.message_id", el.update_id)]]

\* a callback_query decoded with the chat id read beside the query, not from
\* the message nested in it
CallbackFromTopChat(b, slot, el) ==
    [b EXCEPT !.messages[slot] =
        [@ EXCEPT !.type = "callback_query",
                  !.text = V("callback_query.data", el.update_id),
                  !.chat_id = V("callback_query.chat.id", el.update_id),
                  !.query_id = V("callback_query.id", el.update_id)]]

\* the branch of a "callback_query" element
DecodeCallbackQuery(b, slot, el) ==
    [b EXCEPT !.messages[slot] =
        [@ EXCEPT !.type = "callback_query",
                  !.from_id = V("callback_query.from.id", el.update_id),
                  !.from_name = V("callback_query.from.first_name", el.update_id),
                  !.text = V("callback_query.data", el.update_id),
                  !.date = Null,
                  !.chat_id = V("callback_query.message.chat.id", el.update_id),
                  !.reply_to_text = Str(el, "text" \in el.sub, "callback_query.message.text"),
                  !.chat_title = Empty,
                  !.query_id = V("callback_query.id", el.update_id),
                  !.message_id = V("callback_query.message.message_id", el.update_id)]]

\* the sub-key chain of an "edited_message": text, else location
DecodeEditedBody(m0, el) ==
    IF "text" \in el.sub
    THEN [m0 EXCEPT !.text = V("edited_message.text", el.update_id)]
    ELSE IF "location" \in el.sub
    THEN [m0 EXCEPT !.longitude = V("edited_message.location.longitude", el.update_id),
                    !.latitude = V("edited_message.location.latitude", el.update_id)]
    ELSE m0

\* the branch of an "edited_message" element
DecodeEditedMessage(b, slot, el) ==
    [b EXCEPT !.messages[slot] =
        DecodeEditedBody(
            [@ EXCEPT !.type = "edited_message",
                      !.from_id = V("edited_message.from.id", el.update_id),
                      !.from_name = V("edited_message.from.first_name", el.update_id),
                      !.date = V("edited_message.date", el.update_id),
                      !.chat_id = V("edited_message.chat.id", el.update_id),
                      !.chat_title = Str(el, "title" \in el.sub, "edited_message.chat.title"),
                      !.message_id = V("edited_message.message_id", el.update_id)],
            el)]

\* the type dispatch of processResult: the first key present decides
DecodeElement(b, slot, el) ==
    IF "message" \in el.keys THEN DecodeMessage(b, slot, el)
    ELSE IF "channel_post" \in el.keys THEN DecodeChannelPost(b, slot, el)
    ELSE IF "callback_query" \in el.keys THEN DecodeCallbackQuery(b, slot, el)
    ELSE IF "edited_message" \in el.keys THEN DecodeEditedMessage(b, slot, el)
    ELSE b

\* the check taken for "not above the offset last polled with"
AlreadyDealtWithBelowOffset(last, update_id) == update_id <= last + 1

\* "Check have we already dealt with this message"
AlreadyDealtWith(last, update_id) == last = update_id

\* processResult(result, messageIndex)
ProcessResult(b, el, messageIndex) ==
    IF ~AlreadyDealtWith(b.last_message_received, el.update_id)
    THEN [bot |-> DecodeElement([b EXCEPT !.last_message_received = el.update_id,
                                          !.messages[messageIndex] = ResetFields(@, el.update_id),
                                          !.log = @ \o <<Ev("decode", el.update_id),
                                                          Ev("slot", messageIndex)>>],
                                messageIndex, el),
          ret |-> TRUE]
    ELSE [bot |-> b, ret |-> FALSE]

\* "Step through all results": element i of the array, newMessageIndex so far
RECURSIVE ProcessResults(_, _, _, _)
\* the loop ended at the first element that is not decoded
StopAtSkipped(r, result, i, newMessageIndex) ==
    IF r.ret THEN ProcessResults(r.bot, result, i + 1, newMessageIndex + 1)
    ELSE [bot |-> r.bot, ret |-> newMessageIndex]

\* if (processResult(result, newMessageIndex)) newMessageIndex++;
ProcessResultsNext(r, result, i, newMessageIndex) ==
    ProcessResults(r.bot, result, i + 1,
                   IF r.ret THEN newMessageIndex + 1 ELSE newMessageIndex)

ProcessResults(b, result, i, newMessageIndex) ==
    IF i > Len(result) THEN [bot |-> b, ret |-> newMessageIndex]
    ELSE ProcessResultsNext(ProcessResult(b, result[i], newMessageIndex),
                            result, i, newMessageIndex)

-----------------------------------------------------------------------------
(* getUpdates(offset).  xs are the exchanges the transport offers, one per  *)
(* GET the call makes; the call is complete when it returned without        *)
(* needing more of them than it was given.                                  *)

\* the test for an empty response written as a test for a blank one
IsBlankResponse(response) == response.chars = <<" ">>

\* if (response == "")
IsEmptyResponse(response) == response.chars = EmptyChars

\* if (error && response.length() == (unsigned) maxMessageLength)
IsOversized(response) == response.error /\ Len(response.chars) = maxMessageLength

\* the recursive call made with the watermark: getUpdates(last_message_received + 1)
SkipOffsetWatermark(last, updateId) == last + 1

\* the offset of the recursive call: getUpdates(updateId + 1)
SkipOffset(last, updateId) == updateId + 1

\* return ret;
Return(b, ret, rest, seen) ==
    [bot |-> [b EXCEPT !.log = Append(@, Ev("return", ret))],
     ret |-> ret, rest |-> rest, complete |-> TRUE, seen |-> seen]

\* deserializeJson(doc, response), and whether it reported an error
Deserialized(b, response) ==
    [b EXCEPT !.log = Append(@, Ev("deserializeUpdates", IF response.error THEN 1 ELSE 0))]

\* giving up moves the watermark past the id scraped from the response
GiveUpPastScraped(b3, response, updateId, rest) ==
    Return([b3 EXCEPT !.last_message_received = updateId + 1], 0, rest, << >>)

RECURSIVE GetUpdates(_, _, _)
\* the result array has elements: decode them and keep the client open,
\* "because there may be a response to be given"
GetUpdatesDecoded(p, rest, result) == Return(p.bot, p.ret, rest, result)

\* return getUpdates(updateId + 1);
ReturnSkipped(inner) == inner

\* the parse failed, or there is no result: "Close the client as no response
\* is to be given", then skip the oversized update or give up
GetUpdatesClosed(b3, response, updateId, rest) ==
    IF IsOversized(response)
    THEN ReturnSkipped(GetUpdates([b3 EXCEPT !.log = Append(@, Ev("skip", updateId))],
                                  SkipOffset(b3.last_message_received, updateId), rest))
    ELSE Return(b3, 0, rest,
                IF ~response.error /\ response.hasResult THEN response.result ELSE << >>)

\* getUpdates once sendGetToTelegram has returned the response
GetUpdatesAnswered(b1, response, updateId, rest) ==
    IF IsEmptyResponse(response)
    THEN Return(CloseClient(b1), 0, rest, << >>)
    ELSE IF ~response.error /\ response.hasResult /\ Len(response.result) > 0
    THEN GetUpdatesDecoded(
             ProcessResults(Deserialized(b1, response), response.result, 1, 0),
             rest, response.result)
    ELSE GetUpdatesClosed(CloseClient(Deserialized(b1, response)), response, updateId, rest)

\* long updateId = getUpdateIdFromResponse(response);
GetUpdatesScraped(b, response, updateId, rest) ==
    GetUpdatesAnswered([b EXCEPT !.log = @ \o <<Ev("response", Len(response.chars)),
                                                 Ev("scrape", updateId)>>],
                       response, updateId, rest)

GetUpdatesSent(r, x, rest) ==
    GetUpdatesScraped(r.bot, r.body, GetUpdateIdFromResponse(r.body.chars, x.stack), rest)

GetUpdates(b, offset, xs) ==
    IF xs = << >>
    THEN [bot |-> b, ret |-> 0, rest |-> xs, complete |-> FALSE, seen |-> << >>]
    ELSE GetUpdatesSent(
             SendGetToTelegram([b EXCEPT !.log = Append(@, Ev("getUpdates", offset))], Head(xs)),
             Head(xs), Tail(xs))

-----------------------------------------------------------------------------
(* What the transport and the server may answer.                            *)

UBody(chars, error, hasResult, result) ==
    [chars |-> chars, error |-> error, hasResult |-> hasResult, result |-> result,
     ok |-> FALSE, message_id |-> 0]

X(canConnect, body, stack) == [canConnect |-> canConnect, body |-> body, stack |-> stack]

Text(n) == [i \in 1 .. n |-> "x"]

\* getFile's answer: the file's path and size, or nothing within the timeout
FileOk == UBody(Text(3), FALSE, TRUE, << >>)
FileExchanges == {X(TRUE, FileOk, << >>), X(FALSE, NoBody, << >>)}
NoFile == X(FALSE, NoBody, << >>)

El(uid, keys, sub, fileX) == [update_id |-> uid, keys |-> keys, sub |-> sub, fileX |-> fileX]

\* the update elements the server sends: plain text messages, and messages
\* that carry a document (getFile then answers or fails)
TextElements == {El(uid, {"message"}, {"text"}, NoFile) : uid \in Ids}
DocElements == {El(uid, {"message"}, {"document"}, fx) : uid \in Ids, fx \in FileExchanges}

\* result arrays of 1 .. HANDLE_MESSAGES elements (the server honours limit=)
RECURSIVE SeqsUpTo(_, _)
SeqsUpTo(S, n) ==
    IF n = 0 THEN {<< >>}
    ELSE LET shorter == SeqsUpTo(S, n - 1)
         IN  shorter \cup {Append(q, e) : q \in {t \in shorter : Len(t) = n - 1}, e \in S}

Batches(elements) == SeqsUpTo(elements, HANDLE_MESSAGES) \ {<< >>}

\* bodies of exactly maxMessageLength characters that do not parse:
\* three of them, with what the stack held under updateId[]
OversizeExchanges ==
    { X(TRUE, UBody(<<"x", "2">> \o Text(maxMessageLength - 2), TRUE, FALSE, << >>), << >>),
      X(TRUE, UBody(<<"x", "3", "CR", "1">> \o Text(maxMessageLength - 4), TRUE, FALSE, << >>),
        <<"1", "7">>),
      X(TRUE, UBody(<<"1", "2", "LF", "3">> \o Text(maxMessageLength - 4), TRUE, FALSE, << >>),
        << >>) }

\* the length of the body that carries a result array of n elements
JsonLen(n) == IF n <= 1 THEN maxMessageLength - 1 ELSE maxMessageLength

FailBodies ==
    { NoBody,                                             \* nothing arrived in time
      UBody(Text(1), TRUE, FALSE, << >>),                 \* too short
      UBody(Text(2), TRUE, FALSE, << >>),                 \* cut off, does not parse
      UBody(Text(2), FALSE, FALSE, << >>),                \* no "result"
      UBody(Text(maxMessageLength), FALSE, TRUE, << >>) } \* "result":[]

ResultBodies(elements) ==
    {UBody(Text(JsonLen(Len(r))), FALSE, TRUE, r) : r \in Batches(elements)}

Exchanges(bodies) == {X(c, body, << >>) : c \in BOOLEAN, body \in bodies}

Prefixes == SeqsUpTo(OversizeExchanges, MaxSkips)

-----------------------------------------------------------------------------
(* The state and the calls.                                                 *)

Bot == [connected |-> connected, last_message_received |-> last_message_received,
        messages |-> messages, last_sent_message_id |-> last_sent_message_id,
        log |-> << >>]

Count(log, e, n) == Cardinality({i \in 1 .. Len(log) : log[i] = Ev(e, n)})
Has(log, e) == \E i \in 1 .. Len(log) : log[i].e = e

IdsOf(batch) == {batch[i].update_id : i \in 1 .. Len(batch)}

\* the ids of the array rise strictly, starting above `top`
RisesAbove(top, batch) ==
    \A i \in 1 .. Len(batch) :
        batch[i].update_id > (IF i = 1 THEN top ELSE batch[i - 1].update_id)

\* ids decoded by a call, in order
RECURSIVE Decoded(_)
Decoded(log) ==
    IF log = << >> THEN << >>
    ELSE (IF Head(log).e = "decode" THEN <<Head(log).n>> ELSE << >>) \o Decoded(Tail(log))

Range(q) == {q[i] : i \in 1 .. Len(q)}

NoRepeat(q) == \A i, j \in 1 .. Len(q) : i # j => q[i] # q[j]

TotalCap == MaxId + 1

NoCall == [op |-> "none", entry |-> FALSE, log |-> << >>, ret |-> 0,
           batch |-> << >>, body |-> NoBody, canConnect |-> FALSE, before |-> 0,
           same |-> FALSE, kept |-> TRUE]

(* The history of a run of polls.  It is kept while every result array seen *)
(* rose strictly above the ones before it; after that only `again` stays.   *)
NoHist == [delivered |-> {}, total |-> 0, seen |-> {}, arrays |-> 0,
           mono |-> TRUE, top |-> 0, again |-> FALSE]

(* unsigned long: 32 bits, kept as two words of 16 bits so that sums and  *)
(* differences wrap as they do in the program                              *)
Word == 2^16
UL(hi, lo) == [hi |-> hi, lo |-> lo]

\* the unsigned long of a small number
ULongOf(n) == UL(n \div Word, n % Word)

\* a + n for a small number n
ULongAdd(a, n) ==
    LET lo == a.lo + n
    IN  UL((a.hi + lo \div Word) % Word, lo % Word)

\* a - b
ULongSub(a, b) ==
    LET borrow == IF a.lo < b.lo THEN 1 ELSE 0
    IN  UL((a.hi + Word - b.hi - borrow) % Word, (a.lo + Word - b.lo) % Word)

\* a < b
ULongLess(a, b) == a.hi < b.hi \/ (a.hi = b.hi /\ a.lo < b.lo)

\* the clock n milliseconds before it wraps to 0
ULongBefore(n) == ULongSub(ULongOf(0), ULongOf(n))

\* no call is in progress
Idle == [pc |-> "idle"]
NoNet == [buf |-> << >>, wire |-> << >>, endless |-> FALSE, odd |-> FALSE]

\* calls that run to completion in one step leave these alone
Still == UNCHANGED <<millis, task, net>>

Init ==
    /\ connected = FALSE
    /\ last_message_received \in 0 .. MaxId
    /\ messages = [i \in Slots |-> BlankMessage]
    /\ last_sent_message_id = 0
    /\ call = NoCall
    /\ hist = [NoHist EXCEPT !.top = last_message_received]
    /\ millis = ULongOf(0)
    /\ task = Idle
    /\ net = NoNet

Install(b) ==
    /\ connected' = b.connected
    /\ last_message_received' = b.last_message_received
    /\ messages' = b.messages
    /\ last_sent_message_id' = b.last_sent_message_id

\* some id decoded by this call had been decoded before, or is decoded twice
DeliveredAgain(h, decoded) ==
    \/ Range(decoded) \cap h.delivered # {}
    \/ ~NoRepeat(decoded)

Track(h, r, decoded) ==
    IF h.mono /\ RisesAbove(h.top, r.seen)
    THEN [delivered |-> h.delivered \cup Range(decoded),
          total |-> Min(TotalCap, h.total + r.ret),
          seen |-> h.seen \cup IdsOf(r.seen),
          arrays |-> IF r.seen = << >> THEN h.arrays ELSE h.arrays + 1,
          mono |-> TRUE,
          top |-> SetMax({h.top} \cup IdsOf(r.seen)),
          again |-> h.again \/ DeliveredAgain(h, decoded)]
    ELSE [NoHist EXCEPT !.mono = FALSE,
                        !.again = h.again \/ DeliveredAgain(h, decoded)]

\* getUpdates has returned r, in a run of polls
PollDone(r) ==
    /\ r.complete /\ r.rest = << >>
    /\ Install(r.bot)
    /\ call' = [NoCall EXCEPT !.op = "getUpdates", !.ret = r.ret, !.batch = r.seen,
                              !.same = (call.op = "getUpdates" /\ r.seen # << >>
                                        /\ call.batch = r.seen)]
    /\ hist' = Track(hist, r, Decoded(r.bot.log))
    /\ Still

\* what the server answers a poll with: a result array of text messages, an
\* empty array, nothing in time, or no connection
PollExchanges ==
    {X(TRUE, body, << >>) :
        body \in {NoBody, UBody(Text(maxMessageLength), FALSE, TRUE, << >>)}
                 \cup ResultBodies(TextElements)}
    \cup {X(FALSE, NoBody, << >>)}

\* bot.getUpdates(bot.last_message_received + 1), the polling loop of a sketch
Poll ==
    \E fin \in PollExchanges :
        PollDone(GetUpdates(Bot, last_message_received + 1, <<fin>>))

\* the server or the network drops the connection between two calls
PeerClose ==
    /\ connected
    /\ connected' = FALSE
    /\ call' = [NoCall EXCEPT !.op = "peerClose", !.entry = TRUE]
    /\ UNCHANGED <<last_message_received, messages, last_sent_message_id, hist>>
    /\ Still

Next ==
    \/ Poll
    \/ PeerClose

Spec == Init /\ [][Next]_vars

-----------------------------------------------------------------------------
(* The calls one by one, each with the trace of what it did to the          *)
(* transport: SpecCalls.                                                    *)

\* getUpdates has returned r; fin is the last exchange it was offered
GetUpdatesDone(r, fin) ==
    /\ r.complete /\ r.rest = << >>
    /\ Install(r.bot)
    /\ call' = [NoCall EXCEPT !.op = "getUpdates", !.entry = connected,
                              !.log = r.bot.log, !.ret = r.ret, !.batch = r.seen,
                              !.body = fin.body, !.canConnect = fin.canConnect,
                              !.before = last_message_received,
                              !.kept = (r.bot.messages = messages
                                        /\ r.bot.last_message_received = last_message_received)]
    /\ UNCHANGED hist
    /\ Still

\* the elements of the traced calls: a text message, and a message with a
\* document whose getFile answers or fails
TraceElements ==
    {El(1, {"message"}, {"text"}, NoFile)}
    \cup {El(2, {"message"}, {"document"}, fx) : fx \in FileExchanges}

TraceExchanges ==
    {X(TRUE, body, << >>) : body \in FailBodies \cup ResultBodies(TraceElements)}
    \cup {X(FALSE, NoBody, << >>)}

\* bot.getUpdates(offset), answered at once
GetUpdatesCall ==
    \E fin \in TraceExchanges :
        GetUpdatesDone(GetUpdates(Bot, last_message_received + 1, <<fin>>), fin)

EngineBodies == {NoBody, UBody(Text(3), FALSE, TRUE, << >>)}
EngineExchanges == {X(c, body, << >>) : c \in BOOLEAN, body \in EngineBodies}

\* an engine function has returned r
EngineDone(r, op, x) ==
    /\ Install(r.bot)
    /\ call' = [NoCall EXCEPT !.op = op, !.entry = connected, !.log = r.bot.log,
                              !.body = r.body, !.canConnect = x.canConnect,
                              !.before = last_message_received]
    /\ UNCHANGED hist
    /\ Still

\* bot.sendGetToTelegram(command)
SendGetCall ==
    \E x \in EngineExchanges : EngineDone(SendGetToTelegram(Bot, x), "sendGetToTelegram", x)

\* bot.sendPostToTelegram(command, payload)
SendPostCall ==
    \E x \in EngineExchanges : EngineDone(SendPostToTelegram(Bot, x), "sendPostToTelegram", x)

\* bot.sendMultipartFormDataToTelegram(...)
SendMultipartCall ==
    \E x \in EngineExchanges :
        EngineDone(SendMultipartFormDataToTelegram(Bot, x), "sendMultipartFormDataToTelegram", x)

\* bot.closeClient()
CloseClientDone(b) ==
    /\ Install(b)
    /\ call' = [NoCall EXCEPT !.op = "closeClient", !.entry = connected, !.log = b.log,
                              !.before = last_message_received]
    /\ UNCHANGED hist
    /\ Still

CloseClientCall == CloseClientDone(CloseClient(Bot))

NextCalls ==
    \/ GetUpdatesCall
    \/ SendGetCall
    \/ SendPostCall
    \/ SendMultipartCall
    \/ CloseClientCall
    \/ PeerClose

SpecCalls == Init /\ [][NextCalls]_vars

-----------------------------------------------------------------------------
(* Polls answered with oversized bodies: SpecSkip.                          *)

\* what follows the oversized bodies
AfterSkipExchanges ==
    {X(TRUE, body, << >>) :
        body \in FailBodies \cup {UBody(Text(JsonLen(1)), FALSE, TRUE, <<e>>) : e \in TextElements}}
    \cup {X(FALSE, NoBody, << >>)}

\* bot.getUpdates(bot.last_message_received + 1), answered first with up to
\* MaxSkips bodies that fill the buffer and do not parse
GetUpdatesOversized ==
    \E pre \in Prefixes, fin \in AfterSkipExchanges :
        GetUpdatesDone(GetUpdates(Bot, last_message_received + 1, Append(pre, fin)), fin)

NextSkip ==
    \/ GetUpdatesOversized
    \/ PeerClose

SpecSkip == Init /\ [][NextSkip]_vars

-----------------------------------------------------------------------------
(* Polls that bring one update each, of every shape: which of the four keys *)
(* the element has and which members the object under the key has.  The ids *)
(* rise from poll to poll, as the server hands them out.                    *)

Shape(keys, sub, fileX) == [keys |-> keys, sub |-> sub, fileX |-> fileX]

Shapes ==
    { Shape({"message"}, {"text"}, NoFile),
      Shape({"message"}, {"location", "title"}, NoFile),
      Shape({"message"}, {"document", "caption"}, X(TRUE, FileOk, << >>)),
      Shape({"message"}, {"contact", "reply_to_message", "reply_text"}, NoFile),
      Shape({"channel_post"}, {"text", "title"}, NoFile),
      Shape({"channel_post"}, {}, NoFile),
      Shape({"callback_query"}, {"text"}, NoFile),
      Shape({"callback_query", "edited_message"}, {"text"}, NoFile),
      Shape({"edited_message"}, {"text"}, NoFile),
      Shape({"edited_message"}, {"location"}, NoFile),
      Shape({}, {}, NoFile),                                  \* another kind of update
      Shape({"message", "callback_query"}, {"text"}, NoFile),
      Shape({"channel_post", "edited_message"}, {"text"}, NoFile) }

ShapeExchange(uid, shape) ==
    X(TRUE, UBody(Text(JsonLen(1)), FALSE, TRUE,
                  <<El(uid, shape.keys, shape.sub, shape.fileX)>>), << >>)

\* bot.getUpdates(last_message_received + 1) brings the update uid
DecodeCallOf(fin) ==
    GetUpdatesDone(GetUpdates(Bot, last_message_received + 1, <<fin>>), fin)

DecodeCall ==
    \E shape \in Shapes, uid \in Ids :
        /\ uid > last_message_received
        /\ DecodeCallOf(ShapeExchange(uid, shape))

NextDecode ==
    \/ DecodeCall
    \/ PeerClose

SpecDecode == Init /\ [][NextDecode]_vars

-----------------------------------------------------------------------------
(* sendPostMessage: the loop behind sendMessage and editMessageText, one   *)
(* step per trip.  millis() and sttime are unsigned long, 32 bits wide on   *)
(* the boards the library is built for, and so is sttime + 8000.            *)

\* the 8000 of the loop condition, in milliseconds
SendBudget == 8000

\* millis() < sttime + 8000
InBudget(now, sttime) == ULongLess(now, ULongAdd(sttime, SendBudget))

\* last_sent_message_id = last_id; without the test last_id > 0
CheckForOkStoresAny(b, body) ==
    [bot |-> [b EXCEPT !.last_sent_message_id = body.message_id,
                       !.log = Append(@, Ev("checkForOk", body.message_id))],
     ok  |-> body.ok]

\* checkForOkResponse(response): a body that does not parse gives 0 and false
CheckForOkResponse(b, body) ==
    [bot |-> IF body.message_id > 0
             THEN [b EXCEPT !.last_sent_message_id = body.message_id,
                            !.log = Append(@, Ev("checkForOk", body.message_id))]
             ELSE [b EXCEPT !.log = Append(@, Ev("checkForOk", 0))],
     ok  |-> body.ok]

\* sent = checkForOkResponse(sendPostToTelegram(command, payload))
PostAndCheck(r) == CheckForOkResponse(r.bot, r.body)

\* the answer to sendMessage: {"ok":ok,"result":{"message_id":id}}
SendAnswer(ok, id) ==
    [NoBody EXCEPT !.chars = Text(3), !.error = FALSE, !.ok = ok, !.message_id = id]

SendBodies == {NoBody, SendAnswer(FALSE, 0), SendAnswer(TRUE, 41), SendAnswer(TRUE, 42)}
SendExchanges ==
    {X(TRUE, body, << >>) : body \in SendBodies} \cup {X(FALSE, NoBody, << >>)}

\* how long one trip of the loop takes, in milliseconds
Durations == {2000, 5000}

\* what millis() may show when a call starts
ClockValues == {ULongOf(0), ULongBefore(9000), ULongBefore(SendBudget), ULongBefore(3000)}

\* bool sent = false; unsigned long sttime = millis();
\* the call starts when the clock shows `now`
SendBegin ==
    /\ task = Idle
    /\ \E hasText \in BOOLEAN, now \in ClockValues :
         /\ millis' = now
         /\ task' = [pc |-> "sendPostMessage", sttime |-> now, sent |-> FALSE,
                     hasText |-> hasText, posts |-> 0, okId |-> 0, late |-> FALSE]
    /\ UNCHANGED <<connected, last_message_received, messages, last_sent_message_id,
                   call, hist, net>>

\* if (payload.containsKey("text")) while (...) { ...; if (sent) break; }
Looping(t, now) == t.hasText /\ ~t.sent /\ InBudget(now, t.sttime)

\* one trip of the loop has ended with r, after d milliseconds
SendAttemptDone(r, x, d) ==
    /\ Install(r.bot)
    /\ task' = [task EXCEPT !.sent = r.ok, !.posts = @ + 1,
                            !.okId = IF r.ok THEN x.body.message_id ELSE @,
                            !.late = @ \/ ~ULongLess(ULongSub(millis, task.sttime), ULongOf(SendBudget))]
    /\ millis' = ULongAdd(millis, d)
    /\ UNCHANGED <<call, hist, net>>

SendAttempt ==
    /\ task.pc = "sendPostMessage"
    /\ Looping(task, millis)
    /\ task.posts < MaxPosts
    /\ \E x \in SendExchanges, d \in Durations :
         SendAttemptDone(PostAndCheck(SendPostToTelegram(Bot, x)), x, d)

\* closeClient(); return sent;
SendReturn ==
    /\ task.pc = "sendPostMessage"
    /\ ~Looping(task, millis)
    /\ Install(CloseClient(Bot))
    /\ call' = [op |-> "sendPostMessage", ret |-> task.sent, hasText |-> task.hasText,
                okId |-> task.okId, late |-> task.late,
                elapsed |-> ULongSub(millis, task.sttime)]
    /\ task' = Idle
    /\ UNCHANGED <<hist, millis, net>>

NextSend ==
    \/ SendBegin
    \/ SendAttempt
    \/ SendReturn
    \/ PeerClose

SpecSend == Init /\ [][NextSend]_vars

-----------------------------------------------------------------------------
(* The functions of the API that send one command, each as one call:        *)
(* SpecApi.  A function that loops "for a while to send the message" is     *)
(* given xs, the exchanges of the trips its 8000 ms allow; it makes them    *)
(* one after the other until one is answered with "ok":true.                *)

\* bool sent = false;
NotSent(b) == [bot |-> b, ok |-> FALSE]

RECURSIVE SendLoop(_, _, _)
\* sent = checkForOkResponse(response); if (sent) break;
SendLoopNext(r, rest, verb) == IF r.ok THEN r ELSE SendLoop(r.bot, rest, verb)

\* while (millis() - sttime < 8000ul) { response = send...(command); ... }
SendLoop(b, xs, verb) ==
    IF xs = << >> THEN NotSent(b)
    ELSE LET r == Request(EnsureConnected(b, Head(xs)), Head(xs), verb)
         IN  SendLoopNext(CheckForOkResponse(r.bot, r.body), Tail(xs), verb)

\* closeClient(); return sent;
Closed(r) == [bot |-> CloseClient(r.bot), ok |-> r.ok]

\* getMe()
GetMe(b, x) ==
    LET r == SendGetToTelegram(b, x)
    IN  [bot |-> CloseClient([r.bot EXCEPT !.log = Append(@, Ev("deserializeMe", 0))]),
         ok  |-> ~r.body.error /\ r.body.hasResult]

\* setMyCommands(commandArray)
SetMyCommands(b, xs) == Closed(SendLoop(b, xs, "writePOST"))

\* sendSimpleMessage(chat_id, text, parse_mode): if (text != "") while ...
SendSimpleMessage(b, hasText, xs) ==
    Closed(IF hasText THEN SendLoop(b, xs, "writeGET") ELSE NotSent(b))

\* sendPostMessage(payload, edit): if (payload.containsKey("text")) while ...
SendPostMessage(b, hasText, xs) ==
    Closed(IF hasText THEN SendLoop(b, xs, "writePOST") ELSE NotSent(b))

\* sendPostPhoto(payload): if (payload.containsKey("photo")) while ...
SendPostPhoto(b, hasPhoto, xs) ==
    Closed(IF hasPhoto THEN SendLoop(b, xs, "writePOST") ELSE NotSent(b))

\* sendChatAction(chat_id, text): if (text != "") while ...
SendChatAction(b, hasText, xs) ==
    Closed(IF hasText THEN SendLoop(b, xs, "writeGET") ELSE NotSent(b))

\* deleteMessage(chat_id, message_id): if (message_id == 0) return false;
DeleteMessage(b, message_id, x) ==
    IF message_id = 0 THEN NotSent(b)
    ELSE Closed(PostAndCheck(SendPostToTelegram(b, x)))

\* answerCallbackQuery(query_id, text, show_alert, url, cache_time)
AnswerCallbackQuery(b, x) == Closed(PostAndCheck(SendPostToTelegram(b, x)))

\* getFile(messages[0].file_path, messages[0].file_size, file_id)
GetFileOfSlot(b, x) ==
    LET r == GetFile(b, 0, El(b.messages[0].update_id, {"message"}, {"document"}, x))
    IN  [bot |-> r.bot, ok |-> r.ret]

\* the trips of a loop that starts within its 8000 ms: one at least
Trips == SeqsUpTo(SendExchanges, MaxTrips) \ {<< >>}

\* the trips of sendPostMessage, whose test `millis() < sttime + 8000` may
\* fail before the first one
PostTrips == SeqsUpTo(SendExchanges, MaxTrips)

\* a function of the API has returned r; arg tells whether its argument
\* passed the test the function makes of it (kept in call.same)
ApiDone(r, op, arg) ==
    /\ Install(r.bot)
    /\ call' = [NoCall EXCEPT !.op = op, !.entry = connected, !.log = r.bot.log,
                              !.ret = IF r.ok THEN 1 ELSE 0,
                              !.same = arg,
                              !.before = last_message_received]
    /\ UNCHANGED hist
    /\ Still

NextApi ==
    \/ \E x \in EngineExchanges : ApiDone(GetMe(Bot, x), "getMe", TRUE)
    \/ \E xs \in Trips : ApiDone(SetMyCommands(Bot, xs), "setMyCommands", TRUE)
    \/ \E hasText \in BOOLEAN, xs \in Trips :
           ApiDone(SendSimpleMessage(Bot, hasText, xs), "sendSimpleMessage", hasText)
    \/ \E hasText \in BOOLEAN, xs \in PostTrips :
           ApiDone(SendPostMessage(Bot, hasText, xs), "sendPostMessage", hasText)
    \/ \E hasPhoto \in BOOLEAN, xs \in Trips :
           ApiDone(SendPostPhoto(Bot, hasPhoto, xs), "sendPostPhoto", hasPhoto)
    \/ \E hasText \in BOOLEAN, xs \in Trips :
           ApiDone(SendChatAction(Bot, hasText, xs), "sendChatAction", hasText)
    \/ \E message_id \in 0 .. 1, x \in SendExchanges :
           ApiDone(DeleteMessage(Bot, message_id, x), "deleteMessage", message_id # 0)
    \/ \E x \in SendExchanges :
           ApiDone(AnswerCallbackQuery(Bot, x), "answerCallbackQuery", TRUE)
    \/ \E x \in FileExchanges : ApiDone(GetFileOfSlot(Bot, x), "getFile", TRUE)
    \/ SendGetCall
    \/ PeerClose

SpecApi == Init /\ [][NextApi]_vars

-----------------------------------------------------------------------------
(* readHTTPAnswer, one step per test of a loop condition and per character. *)
(* A stream is a sequence of characters: "CR", "LF", " ", digits, "K" for   *)
(* the fifteen characters of Content-Length: in any case, "h" for any other *)
(* character of a header and "b" for a character of the body.              *)

\* first index of c in s at or after from, 0 if there is none: indexOf
RECURSIVE IndexOf(_, _, _)
IndexOf(s, c, from) ==
    IF from > Len(s) THEN 0
    ELSE IF s[from] = c THEN from
    ELSE IndexOf(s, c, from + 1)

RECURSIVE ToIntAcc(_, _, _)
ToIntAcc(s, pos, acc) ==
    IF pos > Len(s) \/ s[pos] \notin Digits THEN acc
    ELSE ToIntAcc(s, pos + 1, 10 * acc + DigitVal(s[pos]))

RECURSIVE SkipSpaces(_, _)
SkipSpaces(s, pos) ==
    IF pos <= Len(s) /\ s[pos] = " " THEN SkipSpaces(s, pos + 1) ELSE pos

\* String::toInt(): blanks are skipped, then the digits count, 0 if none
ToInt(s) == ToIntAcc(s, SkipSpaces(s, 1), 0)

\* toRead = headerLC.substring(ind1 + 15, ind2).toInt(); headers = "";
ContentLengthRead(t, ind1, ind2) ==
    IF ind2 = 0 THEN t
    ELSE [t EXCEPT !.toRead = ToInt(SubSeq(t.headers, ind1 + 1, ind2 - 1)),
                   !.headers = << >>]

\* ind1 = headerLC.indexOf("content-length"); ind2 = indexOf("\r", ind1 + 15)
ContentLengthSought(t, ind1) ==
    IF ind1 = 0 THEN t
    ELSE ContentLengthRead(t, ind1, IndexOf(t.headers, "CR", ind1 + 1))

\* the blank line ends the headers
HeadersFinished(t) ==
    ContentLengthSought([t EXCEPT !.finishedHeaders = TRUE], IndexOf(t.headers, "K", 1))

\* a character of the body kept whatever the body holds already
BodyCharUnbounded(t, c) ==
    [t EXCEPT !.body = Append(@, c), !.ch_count = @ + 1, !.responseReceived = TRUE]

\* a character of the body: kept up to maxMessageLength, then dropped
BodyChar(t, c) ==
    IF t.ch_count < maxMessageLength
    THEN [t EXCEPT !.body = Append(@, c),
                   !.ch_count = @ + 1,
                   !.responseReceived =
                       IF t.toRead > 0 THEN t.ch_count + 1 = t.toRead ELSE TRUE]
    ELSE t

\* every line taken for blank
LineAlwaysBlank(t, c) == [t EXCEPT !.currentLineIsBlank = TRUE]

\* if (c == '\n') currentLineIsBlank = true; else if (c != '\r') ... = false;
LineState(t, c) ==
    [t EXCEPT !.currentLineIsBlank =
                  IF c = "LF" THEN TRUE ELSE IF c # "CR" THEN FALSE ELSE @]

\* the body of the inner loop for the character c
ReadChar(t, c) ==
    LineState(IF ~t.finishedHeaders
              THEN IF t.currentLineIsBlank /\ c = "LF"
                   THEN HeadersFinished(t)
                   ELSE [t EXCEPT !.headers = Append(@, c)]
              ELSE BodyChar(t, c),
              c)

\* longPoll * 1000 + waitForResponse
Timeout(longPoll) == longPoll * 1000 + waitForResponse

\* millis() - now < longPoll * 1000 + waitForResponse
BeforeDeadline(t, clock) ==
    ULongLess(ULongSub(clock, t.now), ULongOf(Timeout(t.longPoll)))

\* client->available()
Available(n) == n.buf # << >> \/ n.endless

\* client->read(): a peer that never stops sending goes on with body characters
NextChar(n) == IF n.buf # << >> THEN Head(n.buf) ELSE "b"

\* the clock is looked at in steps of this many milliseconds
TickMs == waitForResponse \div 3

Bytes(n) == [i \in 1 .. n |-> "b"]
HeaderEnd == <<"CR", "LF", "CR", "LF">>

\* what the peer sends in answer to one request
Streams ==
    { << >>,                                             \* nothing
      <<"h">> \o HeaderEnd \o Bytes(2),                  \* no Content-Length
      <<"K", " ", "2">> \o HeaderEnd \o Bytes(2),        \* as announced
      <<"K", " ", "2">> \o HeaderEnd \o Bytes(1),        \* cut short
      <<"K", " ", "0">> \o HeaderEnd,                    \* an empty body
      <<"K", " ", "5">> \o HeaderEnd \o Bytes(5),       \* above maxMessageLength
      <<"LF", "b", "LF", "b">>,                          \* no header at all
      <<"h", "LF", "CR", "h", "LF", "LF", "CR", "b">> }  \* bare line feeds

\* the last peer never stops sending: `odd` tells its characters apart
Peers ==
    {[NoNet EXCEPT !.wire = s] : s \in Streams}
      \cup {[NoNet EXCEPT !.buf = <<"h">> \o HeaderEnd, !.endless = TRUE]}

LongPolls == {0, 1}
ReadClockValues == {ULongOf(0), ULongBefore(2 * TickMs)}

Reading == task # Idle /\ task.pc \in {"outer", "inner"}

\* the locals of readHTTPAnswer as they are declared
ReadStart ==
    /\ task = Idle
    /\ \E peer \in Peers, longPoll \in LongPolls, now \in ReadClockValues :
         /\ net' = peer
         /\ millis' = now
         /\ task' = [pc |-> "outer", now |-> now, longPoll |-> longPoll,
                     ch_count |-> 0, finishedHeaders |-> FALSE,
                     currentLineIsBlank |-> TRUE, responseReceived |-> FALSE,
                     toRead |-> 0, headers |-> << >>, body |-> << >>,
                     peer |-> peer]
    /\ call' = NoCall
    /\ UNCHANGED <<connected, last_message_received, messages, last_sent_message_id, hist>>

\* while (millis() - now < longPoll * 1000 + waitForResponse)
OuterCheck ==
    /\ Reading /\ task.pc = "outer"
    /\ task' = [task EXCEPT !.pc = IF BeforeDeadline(task, millis) THEN "inner" ELSE "done"]
    /\ UNCHANGED <<connected, last_message_received, messages, last_sent_message_id,
                   call, hist, millis, net>>

\* while (client->available()) { char c = client->read(); ... }
ReadByte ==
    /\ Reading /\ task.pc = "inner"
    /\ Available(net)
    /\ task' = ReadChar(task, NextChar(net))
    /\ net' = IF net.buf # << >> THEN [net EXCEPT !.buf = Tail(@)]
                                 ELSE [net EXCEPT !.odd = ~@]
    /\ UNCHANGED <<connected, last_message_received, messages, last_sent_message_id,
                   call, hist, millis>>

\* the inner loop ends; if (responseReceived) break;
InnerExit ==
    /\ Reading /\ task.pc = "inner"
    /\ ~Available(net)
    /\ task' = [task EXCEPT !.pc = IF task.responseReceived THEN "done" ELSE "outer"]
    /\ UNCHANGED <<connected, last_message_received, messages, last_sent_message_id,
                   call, hist, millis, net>>

\* return responseReceived;
ReadReturn ==
    /\ task # Idle /\ task.pc = "done"
    /\ call' = [op |-> "readHTTPAnswer", ret |-> task.responseReceived,
                body |-> task.body, toRead |-> task.toRead, peer |-> task.peer,
                late |-> ~BeforeDeadline(task, millis)]
    /\ task' = Idle
    /\ UNCHANGED <<connected, last_message_received, messages, last_sent_message_id,
                   hist, millis, net>>

\* characters reach the client: the next one, or all that are under way
Arrive ==
    /\ Reading
    /\ net.wire # << >>
    /\ \E k \in {1, Len(net.wire)} :
         net' = [net EXCEPT !.buf = @ \o SubSeq(net.wire, 1, k),
                            !.wire = SubSeq(@, k + 1, Len(@))]
    /\ UNCHANGED <<connected, last_message_received, messages, last_sent_message_id,
                   call, hist, millis, task>>

\* time passes during the call
Tick ==
    /\ Reading
    /\ ULongLess(ULongSub(millis, task.now),
                 ULongOf(Timeout(task.longPoll) + MaxLate * TickMs))
    /\ millis' = ULongAdd(millis, TickMs)
    /\ UNCHANGED <<connected, last_message_received, messages, last_sent_message_id,
                   call, hist, task, net>>

\* the steps of the program
ReaderStep == OuterCheck \/ ReadByte \/ InnerExit \/ ReadReturn

NextRead ==
    \/ ReadStart
    \/ OuterCheck
    \/ ReadByte
    \/ InnerExit
    \/ ReadReturn
    \/ Arrive
    \/ Tick

\* the program keeps running and the clock keeps going
SpecRead == Init /\ [][NextRead]_vars /\ WF_vars(ReaderStep) /\ WF_vars(Tick)

-----------------------------------------------------------------------------
(* Two requests on a connection that is kept open: SpecKeep.  Nothing is    *)
(* taken from the transport between the return of one readHTTPAnswer and    *)
(* the request that follows it, so what the first read left in the client   *)
(* or under way is ahead of the answer to the second.  The answer to the    *)
(* first request has "h" and "b" for its characters, the answer to the      *)
(* second "g" for those of its headers and "c" for those of its body.       *)

\* the locals of readHTTPAnswer as they are declared, the transport being n
Locals(now, longPoll, n) ==
    [pc |-> "outer", now |-> now, longPoll |-> longPoll,
     ch_count |-> 0, finishedHeaders |-> FALSE,
     currentLineIsBlank |-> TRUE, responseReceived |-> FALSE,
     toRead |-> 0, headers |-> << >>, body |-> << >>, peer |-> n]

\* the answers to the first request: without and with a Content-Length
FirstAnswers ==
    { <<"h">> \o HeaderEnd \o Bytes(2),
      <<"K", "2">> \o HeaderEnd \o Bytes(2) }

\* the answer to the second request
SecondAnswer == <<"g">> \o HeaderEnd \o <<"c", "c">>

\* the first request on a fresh connection, and readHTTPAnswer(body)
KeepStart ==
    /\ task = Idle
    /\ call = NoCall
    /\ \E first \in FirstAnswers, now \in ReadClockValues :
         /\ net' = [NoNet EXCEPT !.wire = first]
         /\ millis' = now
         /\ task' = Locals(now, 0, [NoNet EXCEPT !.wire = first])
    /\ connected' = TRUE
    /\ UNCHANGED <<last_message_received, messages, last_sent_message_id, call, hist>>

\* the first read has returned and the connection is open: the next request
\* is written, the server answers it, and readHTTPAnswer(body) is called
KeepAgain ==
    /\ task = Idle
    /\ connected
    /\ call.op = "readHTTPAnswer"
    /\ call.peer.wire \in FirstAnswers
    /\ \E now \in ReadClockValues :
         /\ net' = [net EXCEPT !.wire = @ \o SecondAnswer]
         /\ millis' = now
         /\ task' = Locals(now, 0, [net EXCEPT !.wire = @ \o SecondAnswer])
    /\ call' = NoCall
    /\ UNCHANGED <<connected, last_message_received, messages, last_sent_message_id, hist>>

NextKeep ==
    \/ KeepStart
    \/ KeepAgain
    \/ OuterCheck
    \/ ReadByte
    \/ InnerExit
    \/ ReadReturn
    \/ Arrive
    \/ Tick

SpecKeep == Init /\ [][NextKeep]_vars

-----------------------------------------------------------------------------
(* Result arrays of any length: SpecOver.  The server is asked for at most  *)
(* HANDLE_MESSAGES updates (limit=) and may send one more.  A record        *)
(* written past the end of messages[] is a write to whatever the object     *)
(* holds after the array; the members are declared in the header, and the   *)
(* model lets the write either miss every member it observes or change      *)
(* last_sent_message_id.                                                    *)

\* result arrays of 1 .. HANDLE_MESSAGES + 1 text messages
LongBatches == SeqsUpTo(TextElements, HANDLE_MESSAGES + 1) \ {<< >>}

\* a slot at or past the end of messages[] was written
WrotePastEnd(log) ==
    \E i \in 1 .. Len(log) : log[i].e = "slot" /\ log[i].n >= HANDLE_MESSAGES

\* what last_sent_message_id may hold after such a write
PastEndValues == {0, 7}

\* the call has returned r; past is what the write past the end has left
Overrun(r, past) ==
    IF WrotePastEnd(r.bot.log) THEN [r EXCEPT !.bot.last_sent_message_id = past] ELSE r

LongArrayExchange(batch) == X(TRUE, UBody(Text(JsonLen(Len(batch))), FALSE, TRUE, batch), << >>)

\* bot.getUpdates(last_message_received + 1), answered with the array batch
LongArrayPoll ==
    \E batch \in LongBatches, past \in PastEndValues :
        GetUpdatesDone(
            Overrun(GetUpdates(Bot, last_message_received + 1, <<LongArrayExchange(batch)>>),
                    past),
            LongArrayExchange(batch))

NextOver ==
    \/ LongArrayPoll
    \/ PeerClose

SpecOver == Init /\ [][NextOver]_vars

-----------------------------------------------------------------------------
(* The reads of the requests of a bot whose longPoll is set: SpecWait.      *)
(* getUpdates adds &timeout=longPoll to its request when longPoll > 0; the  *)
(* other functions send their request as it is.  All of them read the       *)
(* answer with readHTTPAnswer.                                              *)

\* the functions whose request is followed here
Requests == {"getUpdates", "sendMessage", "getMe"}

\* no answer within the time followed, or an answer with a Content-Length
WaitPeers ==
    { NoNet,
      [NoNet EXCEPT !.wire = <<"K", "2">> \o HeaderEnd \o Bytes(2)] }

\* the request of kind is written and readHTTPAnswer(body) is called
WaitStart ==
    /\ task = Idle
    /\ \E kind \in Requests, peer \in WaitPeers, longPoll \in LongPolls :
         /\ net' = peer
         /\ task' = [kind |-> kind] @@ Locals(ULongOf(0), longPoll, peer)
    /\ millis' = ULongOf(0)
    /\ call' = NoCall
    /\ UNCHANGED <<connected, last_message_received, messages, last_sent_message_id, hist>>

NextWait ==
    \/ WaitStart
    \/ OuterCheck
    \/ ReadByte
    \/ InnerExit
    \/ ReadReturn
    \/ Arrive
    \/ Tick

SpecWait == Init /\ [][NextWait]_vars

-----------------------------------------------------------------------------
(* Who writes last_sent_message_id: SpecSent.  The calls of SpecApi, given  *)
(* the answers that tell the trips of a loop apart, and polls next to them. *)

\* an answer that is not ok and has no message id, then any answer; a loop
\* ends at the first answer that is ok
SentTrips ==
    {<<x>> : x \in SendExchanges}
    \cup {<<X(TRUE, SendAnswer(FALSE, 0), << >>), x>> : x \in SendExchanges}

\* an update with a text, an answer that does not parse, no connection
SentPolls ==
    { X(TRUE, UBody(Text(JsonLen(1)), FALSE, TRUE, <<El(1, {"message"}, {"text"}, NoFile)>>), << >>),
      X(TRUE, UBody(Text(2), TRUE, FALSE, << >>), << >>),
      X(FALSE, NoBody, << >>) }

NextSent ==
    \/ \E x \in SendExchanges : ApiDone(GetMe(Bot, x), "getMe", TRUE)
    \/ \E xs \in SentTrips : ApiDone(SetMyCommands(Bot, xs), "setMyCommands", TRUE)
    \/ \E hasText \in BOOLEAN, xs \in SentTrips :
           ApiDone(SendSimpleMessage(Bot, hasText, xs), "sendSimpleMessage", hasText)
    \/ \E hasText \in BOOLEAN, xs \in SentTrips \cup {<< >>} :
           ApiDone(SendPostMessage(Bot, hasText, xs), "sendPostMessage", hasText)
    \/ \E hasPhoto \in BOOLEAN, xs \in SentTrips :
           ApiDone(SendPostPhoto(Bot, hasPhoto, xs), "sendPostPhoto", hasPhoto)
    \/ \E hasText \in BOOLEAN, xs \in SentTrips :
           ApiDone(SendChatAction(Bot, hasText, xs), "sendChatAction", hasText)
    \/ \E message_id \in 0 .. 1, x \in SendExchanges :
           ApiDone(DeleteMessage(Bot, message_id, x), "deleteMessage", message_id # 0)
    \/ \E x \in SendExchanges :
           ApiDone(AnswerCallbackQuery(Bot, x), "answerCallbackQuery", TRUE)
    \/ \E x \in SendExchanges : ApiDone(GetFileOfSlot(Bot, x), "getFile", TRUE)
    \/ \E fin \in SentPolls :
           GetUpdatesDone(GetUpdates(Bot, last_message_received + 1, <<fin>>), fin)
    \/ \E x \in SendExchanges : EngineDone(SendPostToTelegram(Bot, x), "sendPostToTelegram", x)
    \/ PeerClose

SpecSent == Init /\ [][NextSent]_vars

-----------------------------------------------------------------------------
(* What the engine writes to the transport: SpecWrite.  The request is a    *)
(* sequence of characters in the alphabet of the streams above; the data    *)
(* of a multipart request is a sequence of writes, each a sequence of bytes.*)

\* the character of a decimal digit
DigitChar(d) == CHOOSE c \in Digits : DigitVal(c) = d

\* client->print(length): the decimal digits of an int that is not negative
RECURSIVE PrintInt(_)
PrintInt(n) ==
    IF n < 10 THEN <<DigitChar(n)>>
    ELSE Append(PrintInt(n \div 10), DigitChar(n % 10))

\* client->println(s)
Println(s) == s \o <<"CR", "LF">>

\* client->println(out), the body of the POST
PrintlnBody(out) == Println(out)

\* what sendPostToTelegram writes for a payload that serializes to out
PostWritten(out) ==
    Println(<<"h", "h", "h">>)                  \* POST /command HTTP/1.1
    \o Println(<<"h">>)                         \* Host:
    \o Println(<<"h">>)                         \* Content-Type: application/json
    \o <<"K">> \o Println(PrintInt(Len(out)))   \* Content-Length:measureJson(payload)
    \o Println(<< >>)                           \* "End of headers"
    \o PrintlnBody(out)                         \* "POST message body"

\* the texts serializeJson may give: "{}" at least
JsonTexts == {Bytes(n) : n \in 2 .. MaxJson}

\* sendPostToTelegram has returned r, its payload serialized to out
PostWriteDone(r, x, out) ==
    /\ Install(r.bot)
    /\ call' = [op |-> "sendPostToTelegram", entry |-> connected, log |-> r.bot.log,
                body |-> r.body, out |-> out,
                written |-> IF Has(r.bot.log, "writePOST") THEN PostWritten(out) ELSE << >>]
    /\ UNCHANGED hist
    /\ Still

\* bot.sendPostToTelegram(command, payload)
PostWrite ==
    /\ task = Idle
    /\ \E x \in EngineExchanges, out \in JsonTexts :
           PostWriteDone(SendPostToTelegram(Bot, x), x, out)

\* byte buffer[512];
BlockSize == 512

\* the bytes the data source yields: getNextByteCallback() one by one
SourceByte(i) == i % 251
Source(n) == [i \in 1 .. n |-> SourceByte(i)]

\* the sizes of the data sources: none, one byte, and around each full block
SourceSizes ==
    {0, 1} \cup {k * BlockSize + d : k \in 1 .. MaxBlocks, d \in {0 - 1, 0, 1}}

\* the lengths getNextBufferLenCallback() gives in the buffer mode
ChunkLens == {BlockSize - 200, BlockSize + 200}

\* client->print(start_request); client->write(buffer, n); client->print(end_request)
Written(t, part, bytes) ==
    [t EXCEPT !.writes = Append(@, [part |-> part, bytes |-> bytes])]

\* the buffer written after every byte, the test if (count == 512) left out
FullBlockAlways(t) ==
    Written([t EXCEPT !.count = 0], "data", SubSeq(t.buffer, 1, t.count))

\* if (count == 512) { client->write(buffer, 512); count = 0; }
FullBlock(t) ==
    IF t.count = BlockSize
    THEN Written([t EXCEPT !.count = 0], "data", SubSeq(t.buffer, 1, BlockSize))
    ELSE t

\* buffer[count] = getNextByteCallback(); count++;
NextByte(t) ==
    FullBlock([t EXCEPT !.buffer[t.count + 1] = SourceByte(t.pos + 1),
                        !.count = @ + 1, !.pos = @ + 1])

\* client->write(getNextBufferCallback(), getNextBufferLenCallback())
NextBuffer(t) ==
    Written([t EXCEPT !.pos = Min(t.n, t.pos + t.chunk)], "data",
            SubSeq(Source(t.n), t.pos + 1, Min(t.n, t.pos + t.chunk)))

\* if (count > 0) client->write(buffer, count);
Remaining(t) ==
    IF t.mode = "byte" /\ t.count > 0
    THEN Written(t, "data", SubSeq(t.buffer, 1, t.count))
    ELSE t

Multipart == task # Idle /\ task.pc = "multipart"

\* the call connects if it has to; connected, it writes the head of the
\* request and the start section, else it returns the empty body at once
MultipartBegin ==
    /\ task = Idle
    /\ \E x \in EngineExchanges, n \in SourceSizes, mode \in {"byte", "buffer"},
          chunk \in ChunkLens :
         LET b1 == EnsureConnected(Bot, x)
         IN  /\ mode = "byte" => chunk = BlockSize - 200
             /\ Install(b1)
             /\ IF b1.connected
                THEN /\ task' = Written([pc |-> "multipart", mode |-> mode, n |-> n, pos |-> 0,
                                         chunk |-> chunk, x |-> x, entry |-> connected,
                                         buffer |-> [i \in 1 .. BlockSize |-> 0],
                                         count |-> 0, writes |-> << >>],
                                        "start", << >>)
                     /\ call' = NoCall
                ELSE /\ task' = Idle
                     /\ call' = [op |-> "sendMultipartFormDataToTelegram", mode |-> mode,
                                 n |-> n, entry |-> connected, writes |-> << >>,
                                 body |-> NoBody]
    /\ UNCHANGED <<hist, millis, net>>

\* while (moreDataAvailableCallback()) { ... }: one trip
MultipartData ==
    /\ Multipart
    /\ task.pos < task.n
    /\ task' = IF task.mode = "byte" THEN NextByte(task) ELSE NextBuffer(task)
    /\ UNCHANGED <<connected, last_message_received, messages, last_sent_message_id,
                   call, hist, millis, net>>

\* the source is at its end: what the buffer still holds, the end section,
\* readHTTPAnswer(body), closeClient(), return body
MultipartEnd ==
    /\ Multipart
    /\ task.pos = task.n
    /\ Install(CloseClient(Bot))
    /\ call' = [op |-> "sendMultipartFormDataToTelegram", mode |-> task.mode,
                n |-> task.n, entry |-> task.entry,
                writes |-> Written(Remaining(task), "end", << >>).writes,
                body |-> task.x.body]
    /\ task' = Idle
    /\ UNCHANGED <<hist, millis, net>>

NextWrite ==
    \/ PostWrite
    \/ MultipartBegin
    \/ MultipartData
    \/ MultipartEnd
    \/ PeerClose

SpecWrite == Init /\ [][NextWrite]_vars

-----------------------------------------------------------------------------
(* C1: an update id that a getUpdates call has decoded into a record and    *)
(* counted is never decoded and counted again by that or a later call.      *)
NeverDeliveredAgain == ~hist.again

(* C2: as long as the update ids of the result arrays rise strictly over    *)
(* the whole run (and start above the initial watermark), the watermark is  *)
(* the largest id seen and the counts returned add up to the number of      *)
(* distinct ids seen.                                                       *)
RisingIdsAllCounted ==
    hist.mono =>
        /\ hist.seen # {} => last_message_received = SetMax(hist.seen)
        /\ hist.total = Cardinality(hist.seen)

\* two polls have brought three ids in rising order
RisingIdsSeen ==
    /\ hist.mono
    /\ hist.arrays >= 2
    /\ Cardinality(hist.seen) >= 3
    /\ call.op = "getUpdates"

(* C3: a getUpdates call that receives the result array the call before it  *)
(* has processed returns 0.                                                 *)
SameArrayYieldsNothing == call.same => call.ret = 0

-----------------------------------------------------------------------------
(* Reading the trace of the last call.                                      *)

Log == call.log
At(e) == {i \in 1 .. Len(Log) : Log[i].e = e}
Last(e) == SetMax(At(e))
Writes == At("writeGET") \cup At("writePOST") \cup At("writeMULTIPART")
EngineOps == {"sendGetToTelegram", "sendPostToTelegram", "sendMultipartFormDataToTelegram"}

\* the response at trace position i filled the buffer and did not parse
OversizedAt(i) ==
    /\ Log[i].e = "response" /\ Log[i].n = maxMessageLength
    /\ i + 2 <= Len(Log) /\ Log[i + 2] = Ev("deserializeUpdates", 1)

\* after the response at i the call closes the client and calls itself with
\* `offset`, doing nothing else in between
RecursAfter(i, offset) ==
    \E j \in At("getUpdates") :
        /\ j > i
        /\ Log[j].n = offset
        /\ \A k \in (i + 1) .. (j - 1) :
               Log[k].e \in {"scrape", "deserializeUpdates", "stop", "skip"}

\* the call returns what its innermost getUpdates returned
ReturnsInnermost ==
    /\ Cardinality(At("return")) = 1
    /\ Log[Len(Log)] = Ev("return", call.ret)

(* C5, as amended: whenever JSON decoding fails on a body whose length      *)
(* equals maxMessageLength, getUpdates closes the transport and calls       *)
(* itself with the offset getUpdateIdFromResponse(body) + 1, the id scraped *)
(* from the body's text, and returns that call's result; a body of that     *)
(* length that decodes takes no skip path.                                  *)
OversizedSkipsPastScrapedId ==
    call.op = "getUpdates" =>
        /\ \A i \in At("response") :
               IF OversizedAt(i) THEN RecursAfter(i, Log[i + 1].n + 1)
               ELSE \A j \in At("getUpdates") : j > i => \E k \in At("response") : i < k /\ k < j
        /\ ReturnsInnermost

\* a skip past an id that is not the watermark, and the retry brought a message
SkippedAndDelivered ==
    /\ call.op = "getUpdates"
    /\ At("skip") # {}
    /\ \E i \in At("skip") : Log[i].n # call.before
    /\ call.ret = 1

(* C5, as claimed: whenever the body has maxMessageLength characters,       *)
(* getUpdates calls itself with the watermark plus 1 as the offset.         *)
OversizedSkipsPastWatermark ==
    call.op = "getUpdates" =>
        \A i \in At("response") :
            Log[i].n = maxMessageLength => RecursAfter(i, call.before + 1)

(* C6: when the body of the GET is empty, getUpdates returns 0 without      *)
(* decoding JSON, leaves the watermark and the records as they were, and    *)
(* the transport is not connected on return.                                *)
EmptyBodyYieldsNothing ==
    (call.op = "getUpdates" /\ Log[Last("response")].n = 0) =>
        /\ call.ret = 0
        /\ \A i \in At("deserializeUpdates") : i < Last("response")
        /\ At("decode") = {}
        /\ call.kept
        /\ ~connected

\* the connection was open, nothing arrived in time, and the call closed it
EmptyBodyClosedClient ==
    /\ call.op = "getUpdates"
    /\ Log[Last("response")].n = 0
    /\ At("read") # {}
    /\ At("stop") # {}

(* C8: a getUpdates call that decodes a non-empty result array never closes *)
(* the transport: it is still connected when the call returns.              *)
ClientKeptOpenAfterResults ==
    (call.op = "getUpdates" /\ call.batch # << >>) =>
        /\ connected
        /\ \A i \in At("stop") : i < Last("response")

(* C9: sendMultipartFormDataToTelegram leaves the transport not connected   *)
(* on every path; sendGetToTelegram and sendPostToTelegram never call stop, *)
(* so the connection they opened or found open is open when they return.    *)
OnlyMultipartCloses ==
    /\ call.op \in {"sendGetToTelegram", "sendPostToTelegram"} =>
           /\ At("stop") = {}
           /\ connected <=> (call.entry \/ \E i \in At("connect") : Log[i].n = 1)
    /\ call.op = "sendMultipartFormDataToTelegram" => ~connected

\* a multipart call that got its answer and then closed the connection
MultipartClosed ==
    /\ call.op = "sendMultipartFormDataToTelegram"
    /\ call.body.chars # EmptyChars
    /\ At("stop") # {}
    /\ ~connected

(* C10: when the transport is not connected and the connect attempt fails,  *)
(* the three engine functions return an empty body and neither write to nor *)
(* read from the transport; when it is connected on entry, they make no     *)
(* connect attempt.                                                         *)
FailedConnectTouchesNothing ==
    call.op \in EngineOps =>
        /\ (~call.entry /\ \E i \in At("connect") : Log[i].n = 0) =>
               /\ call.body.chars = EmptyChars
               /\ Writes = {}
               /\ At("read") = {}
        /\ call.entry => At("connect") = {}

\* a POST on a closed transport whose connect attempt failed
PostConnectFailed ==
    /\ call.op = "sendPostToTelegram"
    /\ ~call.entry
    /\ Log = <<Ev("connect", 0)>>
    /\ ~call.canConnect

-----------------------------------------------------------------------------
\* C7: sendPostMessage with a text goes on posting until the first ok=true or
\* until 8000 ms have passed since it started: it returns true exactly when a
\* POST was answered ok=true, last_sent_message_id is then the message_id of
\* that answer, a false return comes only after the 8000 ms are over, and no
\* POST is started after them.
SendPostMessageUsesItsBudget ==
    /\ (task # Idle /\ task.pc = "sendPostMessage") => ~task.late
    /\ (call.op = "sendPostMessage" /\ call.hasText) =>
         /\ ~call.late
         /\ call.ret => (call.okId > 0 /\ (task = Idle => last_sent_message_id = call.okId))
         /\ ~call.ret => ~ULongLess(call.elapsed, ULongOf(SendBudget))

-----------------------------------------------------------------------------
\* C4: readHTTPAnswer never blocks for good: whatever the transport does,
\* a read that has started comes to its return.
ReadAlwaysReturns == Reading ~> ~Reading

\* a read that is given a finite answer, or none, does come to its return
FiniteReadReturns == (Reading /\ ~net.endless) ~> ~Reading

-----------------------------------------------------------------------------
\* the fields of a record that hold a value read from the document
ValueFields ==
    {"text", "from_id", "from_name", "date", "chat_id", "chat_title", "message_id",
     "longitude", "latitude", "reply_to_message_id", "reply_to_text", "query_id",
     "contact_phone_number", "contact_name", "contact_id",
     "file_caption", "file_name", "file_path", "file_size"}

\* the slots the last getUpdates call has delivered
DeliveredSlots ==
    IF call.op = "getUpdates" /\ call.ret > 0 THEN 0 .. (call.ret - 1) ELSE {}

(* C11: every record the latest getUpdates call delivered holds, in each    *)
(* field, either its default or a value of its own update: nothing is left  *)
(* over from the record an earlier poll put in that slot, and a record that *)
(* is not a message with a document has no document fields set.             *)
RecordsHoldOnlyTheirOwn ==
    \A slot \in DeliveredSlots :
        /\ \A f \in ValueFields :
               messages[slot][f].u \in {0, messages[slot].update_id}
        /\ messages[slot].hasDocument =>
               messages[slot].file_path.u = messages[slot].update_id

(* C12: closeClient calls stop on the transport exactly when the transport  *)
(* is connected, and leaves it not connected; a second closeClient right    *)
(* after it changes nothing and calls no stop.                              *)
ClosesIffConnected ==
    /\ call.op = "closeClient" =>
           /\ (At("stop") # {}) <=> call.entry
           /\ Cardinality(At("stop")) <= 1
           /\ ~connected
    /\ CloseClient(CloseClient(Bot)) = CloseClient(Bot)
    /\ Count(CloseClient(CloseClient(Bot)).log, "stop", 0) = (IF connected THEN 1 ELSE 0)

\* closeClient has closed a connection that was open
ClosedOpenClient ==
    /\ call.op = "closeClient"
    /\ call.entry
    /\ Log = <<Ev("stop", 0)>>
    /\ ~connected

\* the call has decoded the one element of its array into slot 0
DecodedOne ==
    call.op = "getUpdates" /\ call.ret = 1 /\ Len(call.batch) = 1

(* C13: an element with a callback_query key and neither a message nor a    *)
(* channel_post key gives a record of type callback_query whose text is the *)
(* query's data, whose chat id is the chat id of the message nested in the  *)
(* query and whose query id is the query's id.                              *)
CallbackQueryDecoded ==
    (/\ DecodedOne
     /\ "callback_query" \in call.batch[1].keys
     /\ call.batch[1].keys \cap {"message", "channel_post"} = {}) =>
        /\ messages[0].type = "callback_query"
        /\ messages[0].text = V("callback_query.data", call.batch[1].update_id)
        /\ messages[0].chat_id = V("callback_query.message.chat.id", call.batch[1].update_id)
        /\ messages[0].query_id = V("callback_query.id", call.batch[1].update_id)

\* a callback query has been decoded into a slot that held a message before
CallbackQueryAfterMessage ==
    /\ DecodedOne
    /\ call.batch[1].keys = {"callback_query"}
    /\ messages[0].type = "callback_query"
    /\ messages[0].file_name.u \notin {0, messages[0].update_id}

-----------------------------------------------------------------------------
(* What a stream says, read off the stream itself.                          *)

\* how many body characters q holds
BodyChars(q) == Cardinality({i \in 1 .. Len(q) : q[i] = "b"})

\* the stream of the last read begins with a Content-Length header
Announces == call.op = "readHTTPAnswer" /\ call.peer.wire # << >> /\ call.peer.wire[1] = "K"

\* the length it announces
Announced == ToInt(SubSeq(call.peer.wire, 2, IndexOf(call.peer.wire, "CR", 1) - 1))

\* the body characters the read has taken from the transport
BodyCharsTaken == BodyChars(call.peer.wire) - BodyChars(net.wire) - BodyChars(net.buf)

\* the read has taken the whole header block from the transport
HeadTaken == IndexOf(net.wire \o net.buf, "LF", 1) = 0

(* C14: for a response that announces Content-Length L, readHTTPAnswer      *)
(* reports completion only with a body of exactly L characters, and it does *)
(* report completion once it has taken the headers and L body characters    *)
(* from the transport.                                                      *)
CompleteExactlyAtLength ==
    Announces =>
        /\ call.ret => Len(call.body) = Announced
        /\ (HeadTaken /\ BodyCharsTaken >= Announced) => call.ret

-----------------------------------------------------------------------------
\* a readHTTPAnswer call is under way or about to return
InRead == task # Idle /\ task.pc \in {"outer", "inner", "done"}

\* what the peer of the call sends in all
Sent == task.peer.buf \o task.peer.wire

\* what the call has taken from the transport so far
Taken == SubSeq(Sent, 1, Len(Sent) - Len(net.buf) - Len(net.wire))

\* what follows the first LF that ends a line holding nothing but CR, if any
RECURSIVE AfterBlankLine(_, _, _)
AfterBlankLine(q, i, blank) ==
    IF i > Len(q) THEN << >>
    ELSE IF q[i] = "LF" /\ blank THEN SubSeq(q, i + 1, Len(q))
    ELSE AfterBlankLine(q, i + 1, q[i] = "LF" \/ (q[i] = "CR" /\ blank))

Cut(q, n) == SubSeq(q, 1, Min(Len(q), n))

(* C15: the body readHTTPAnswer has built is what follows the first blank   *)
(* line of the characters taken from the transport, cut to maxMessageLength *)
(* characters: no character of the headers and not the line feed that ends  *)
(* them.                                                                    *)
BodyFollowsBlankLine ==
    (InRead /\ ~net.endless) =>
        task.body = Cut(AfterBlankLine(Taken, 1, TRUE), maxMessageLength)

\* a body that was cut, and one that holds line ends of its own
BodyWasCut ==
    /\ InRead /\ ~net.endless
    /\ task.pc = "done"
    /\ Len(task.body) = maxMessageLength
    /\ Len(AfterBlankLine(Taken, 1, TRUE)) > maxMessageLength

\* the body is full and the step takes a character from the transport
TakesWhenFull ==
    /\ InRead /\ task.finishedHeaders /\ task.ch_count = maxMessageLength
    /\ net.buf # << >> /\ net'.buf = Tail(net.buf)

(* C16: in every state of a readHTTPAnswer call the body holds at most      *)
(* maxMessageLength characters and ch_count is its length; a character      *)
(* taken from the transport when the body is full is dropped.               *)
BodyNeverOverfull ==
    /\ [](InRead => (Len(task.body) <= maxMessageLength /\ task.ch_count = Len(task.body)))
    /\ [][TakesWhenFull => (task'.body = task.body /\ task'.ch_count = task.ch_count)]_vars

\* all five body characters were taken and four of them kept
CharDropped ==
    /\ InRead /\ ~net.endless
    /\ task.pc = "inner"
    /\ net.buf = << >> /\ net.wire = << >>
    /\ task.ch_count = maxMessageLength
    /\ BodyChars(Sent) = maxMessageLength + 1

-----------------------------------------------------------------------------
\* the ids of the elements of a result array that differ from the watermark
\* at the moment they are examined, the watermark following each of them
RECURSIVE IdsToDecode(_, _, _)
IdsToDecode(batch, i, w) ==
    IF i > Len(batch) THEN << >>
    ELSE IF batch[i].update_id = w THEN IdsToDecode(batch, i + 1, w)
    ELSE <<batch[i].update_id>> \o IdsToDecode(batch, i + 1, batch[i].update_id)

\* the count, the slots and the watermark are those of the ids d
DecodedAre(d) ==
    /\ call.ret = Len(d)
    /\ \A k \in 1 .. Len(d) : messages[k - 1].update_id = d[k]
    /\ last_message_received = (IF d = << >> THEN call.before ELSE d[Len(d)])

(* C17: for a non-empty result array the count returned is the number of    *)
(* elements whose id differed from the watermark when they were examined,   *)
(* an element equal to the watermark is passed over and the loop goes on,   *)
(* the decoded records fill slots 0 .. count-1 in array order, and the      *)
(* watermark on return is the id of the last decoded element.               *)
CountsWhatDiffers ==
    (call.op = "getUpdates" /\ call.batch # << >>) =>
        DecodedAre(IdsToDecode(call.batch, 1, call.before))

\* the first element was the watermark and was passed over, the second decoded
SkippedThenDecoded ==
    /\ call.op = "getUpdates"
    /\ Len(call.batch) = 2
    /\ call.batch[1].update_id = call.before
    /\ call.batch[2].update_id # call.before
    /\ call.ret = 1
    /\ messages[0].update_id = call.batch[2].update_id

-----------------------------------------------------------------------------
\* the keys processResult tests, in the order it tests them
TypeKeys == <<"message", "channel_post", "callback_query", "edited_message">>

\* the type tag of the record in slot is the first of TypeKeys among keys
TagIsFirstKey(slot, keys) ==
    \E i \in 1 .. Len(TypeKeys) :
        /\ TypeKeys[i] \in keys
        /\ \A j \in 1 .. (i - 1) : TypeKeys[j] \notin keys
        /\ messages[slot].type = TypeKeys[i]

(* C18: for an element that getUpdates has decoded into a record, one of    *)
(* the four type branches applied, it is the branch of the first key the    *)
(* element has in the order message, channel_post, callback_query,          *)
(* edited_message, and the record's type tag is the tag of that branch.     *)
TypeTagIsFirstKey ==
    (call.op = "getUpdates" /\ call.ret = 1) =>
        TagIsFirstKey(0, call.batch[1].keys)

\* the same for the elements that have one of the four keys
KeyedTypeTagIsFirstKey ==
    (call.op = "getUpdates" /\ call.ret = 1
        /\ call.batch[1].keys # {}) =>
        TagIsFirstKey(0, call.batch[1].keys)

-----------------------------------------------------------------------------
\* the body the last call read did not parse and is not of maxMessageLength
UnparsedBody ==
    call.body.error /\ Len(call.body.chars) # maxMessageLength

\* the body the last call read parsed, with no result key or an empty array
ParsedWithoutResults ==
    ~call.body.error /\ (~call.body.hasResult \/ call.body.result = << >>)

\* the last call was a getUpdates that read a non-empty body with no updates
FailedPoll ==
    /\ call.op = "getUpdates"
    /\ Log[Last("response")].n = Len(call.body.chars)
    /\ call.body.chars # EmptyChars
    /\ UnparsedBody \/ ParsedWithoutResults

(* C19: when the non-empty body does not parse and its length is not        *)
(* maxMessageLength, or it parses and has no result key or an empty result  *)
(* array, getUpdates returns 0, decodes nothing, leaves the watermark and   *)
(* every record as they were, and the transport is not connected on return. *)
FailedPollYieldsNothing ==
    FailedPoll =>
        /\ call.ret = 0
        /\ At("decode") = {}
        /\ At("skip") = {}
        /\ call.kept
        /\ ~connected

\* a body of maxMessageLength that parses to an empty result array, read
\* over a connection that was open, which the call then closed
EmptyResultClosedClient ==
    /\ FailedPoll
    /\ call.entry
    /\ ParsedWithoutResults /\ call.body.hasResult
    /\ Len(call.body.chars) = maxMessageLength
    /\ At("stop") # {}

-----------------------------------------------------------------------------
\* the functions of the API that send one command and then let go
ApiOps ==
    {"getMe", "setMyCommands", "sendSimpleMessage", "sendPostMessage", "sendPostPhoto",
     "sendChatAction", "deleteMessage", "answerCallbackQuery", "getFile"}

(* C20: after getMe, setMyCommands, sendSimpleMessage, sendPostMessage,     *)
(* sendPostPhoto, sendChatAction, deleteMessage, answerCallbackQuery or     *)
(* getFile has returned, by whichever return and whether or not the         *)
(* transport was connected when it was called, the transport is not         *)
(* connected.                                                               *)
ApiCallsLeaveClientClosed ==
    call.op \in ApiOps => ~connected

\* the same for every return but the one of deleteMessage for message_id 0
AcceptedApiCallsLeaveClientClosed ==
    (call.op \in ApiOps /\ ~(call.op = "deleteMessage" /\ ~call.same)) => ~connected

\* a call whose argument was rejected found the transport connected and
\* closed it
RejectedTextClosedClient ==
    /\ call.op \in {"sendSimpleMessage", "sendChatAction", "sendPostMessage", "sendPostPhoto"}
    /\ ~call.same
    /\ call.entry
    /\ At("stop") # {}

-----------------------------------------------------------------------------
\* the position of the blank line that ends the headers of the request w:
\* the first CR LF CR LF, 0 if there is none
RECURSIVE BlankLineAt(_, _)
BlankLineAt(w, i) ==
    IF i + 3 > Len(w) THEN 0
    ELSE IF SubSeq(w, i, i + 3) = HeaderEnd THEN i
    ELSE BlankLineAt(w, i + 1)

\* the bytes of w after the blank line that ends its headers
AfterHeaders(w) == SubSeq(w, BlankLineAt(w, 1) + 4, Len(w))

\* the value of the Content-Length header of w, as a server reads it
AnnouncedLength(w) ==
    ToInt(SubSeq(w, IndexOf(w, "K", 1) + 1, IndexOf(w, "CR", IndexOf(w, "K", 1)) - 1))

(* C21: what sendPostToTelegram writes after the blank line that ends the   *)
(* headers is exactly the serialized JSON body, so that the number of body  *)
(* bytes written is the value the Content-Length header announces.          *)
PostBodyIsAnnounced ==
    (call.op = "sendPostToTelegram" /\ call.written # << >>) =>
        /\ AfterHeaders(call.written) = call.out
        /\ Len(AfterHeaders(call.written)) = AnnouncedLength(call.written)

\* the header announces the length of the serialized JSON
PostAnnouncesJsonLength ==
    (call.op = "sendPostToTelegram" /\ call.written # << >>) =>
        AnnouncedLength(call.written) = Len(call.out)

-----------------------------------------------------------------------------
\* the data writes of the last multipart call, in the order they were made
RECURSIVE DataWrites(_)
DataWrites(ws) ==
    IF ws = << >> THEN << >>
    ELSE (IF Head(ws).part = "data" THEN <<Head(ws).bytes>> ELSE << >>)
         \o DataWrites(Tail(ws))

RECURSIVE Concat(_)
Concat(ws) == IF ws = << >> THEN << >> ELSE Head(ws) \o Concat(Tail(ws))

\* the last call was a multipart call in the byte-wise mode that wrote its request
ByteWiseSent ==
    /\ call.op = "sendMultipartFormDataToTelegram"
    /\ call.mode = "byte"
    /\ call.writes # << >>

\* the start section is written first, the end section last, data in between
DataBetweenSections(ws) ==
    /\ ws[1].part = "start"
    /\ ws[Len(ws)].part = "end"
    /\ \A i \in 2 .. (Len(ws) - 1) : ws[i].part = "data"

\* the writes d carry the bytes src in blocks of BlockSize, the last one shorter
InBlocks(d, src) ==
    /\ Concat(d) = src
    /\ \A i \in 1 .. Len(d) : Len(d[i]) > 0 /\ Len(d[i]) <= BlockSize
    /\ \A i \in 1 .. (Len(d) - 1) : Len(d[i]) = BlockSize

(* C22: in the byte-wise mode of sendMultipartFormDataToTelegram, for a     *)
(* source of n >= 0 bytes, the writes made between the start section and    *)
(* the end section carry, put together, the n bytes of the source in order  *)
(* and each once; no write is longer than 512 bytes, every write but the    *)
(* last is of 512 bytes, and no write is empty.                             *)
ByteWiseWritesInBlocks ==
    ByteWiseSent =>
        /\ DataBetweenSections(call.writes)
        /\ InBlocks(DataWrites(call.writes), Source(call.n))

\* two full blocks and a last write of one byte
TwoBlocksAndOneByte ==
    /\ ByteWiseSent
    /\ call.n = 2 * BlockSize + 1
    /\ Len(DataWrites(call.writes)) = 3
    /\ Len(DataWrites(call.writes)[3]) = 1

-----------------------------------------------------------------------------
\* millis() - sttime < 8000ul, the test of sendSimpleMessage, sendPostPhoto
\* and sendChatAction
ElapsedInBudget(now, sttime) == ULongLess(ULongSub(now, sttime), ULongOf(SendBudget))

Posting == task # Idle /\ task.pc = "sendPostMessage"

(* C23: whatever the 32-bit clock shows when sendPostMessage is called with *)
(* a text, within 8000 ms of its wraparound too, the call issues at least   *)
(* one POST and starts no attempt once 8000 ms have passed since it began:  *)
(* its budget test gives what the test of sendSimpleMessage, sendPostPhoto  *)
(* and sendChatAction gives.                                                *)
BudgetTestIsWrapSafe ==
    /\ Posting => (InBudget(millis, task.sttime) <=> ElapsedInBudget(millis, task.sttime))
    /\ Posting => ~task.late
    /\ (Posting /\ task.hasText /\ task.posts = 0) => Looping(task, millis)

\* the same for the calls that begin more than 9000 ms before the wraparound
BudgetTestAwayFromWrap ==
    (Posting /\ task.sttime = ULongOf(0)) =>
        /\ InBudget(millis, task.sttime) <=> ElapsedInBudget(millis, task.sttime)
        /\ ~task.late
        /\ (task.hasText /\ task.posts = 0) => Looping(task, millis)

-----------------------------------------------------------------------------
\* the functions that hand their response to checkForOkResponse
CheckingOps == ApiOps \ {"getMe", "getFile"}

\* where the call c was given a response with a message id above 0
PositiveIds(c) == {i \in 1 .. Len(c.log) : c.log[i].e = "checkForOk" /\ c.log[i].n > 0}

\* the message id of the last such response
LastPositiveId(c) == c.log[SetMax(PositiveIds(c))].n

(* C24: last_sent_message_id changes only when a send or edit helper is     *)
(* given a response whose result.message_id is above 0, and is then that    *)
(* value; getUpdates, getMe, getFile, the engine on its own, a connect that *)
(* fails and a response without such a message id leave it as it was.       *)
LastSentFollowsAnswers ==
    [][ IF call'.op \in CheckingOps /\ PositiveIds(call') # {}
        THEN last_sent_message_id' = LastPositiveId(call')
        ELSE last_sent_message_id' = last_sent_message_id ]_vars

\* sendPostMessage got an answer without a message id, then one with id 42
SecondAnswerStored ==
    /\ call.op = "sendPostMessage"
    /\ At("checkForOk") # {}
    /\ Log[SetMax(At("checkForOk"))] = Ev("checkForOk", 42)
    /\ Cardinality(At("checkForOk")) = 2
    /\ last_sent_message_id = 42

-----------------------------------------------------------------------------
\* the characters of a sequence
Chars(q) == {q[i] : i \in 1 .. Len(q)}

(* C25: on a connection kept open across requests, the body readHTTPAnswer  *)
(* returns for a request holds only bytes the server sent in answer to that *)
(* request: no byte of a late or unfinished answer to an earlier request is *)
(* taken as the answer to the later one.                                    *)
BodyIsOfItsRequest ==
    (call.op = "readHTTPAnswer" /\ "c" \in Chars(call.peer.buf \o call.peer.wire)) =>
        Chars(call.body) \subseteq Chars(SecondAnswer)

\* the same when the first read has left nothing behind
BodyIsOfItsRequestAlone ==
    (call.op = "readHTTPAnswer"
        /\ call.peer.buf \o call.peer.wire = SecondAnswer) =>
        call.body = <<"c", "c">> \/ call.body = <<"c">> \/ call.body = << >>

-----------------------------------------------------------------------------
(* C26: in every getUpdates call each slot index processResult writes is    *)
(* below HANDLE_MESSAGES, the capacity of messages[], whatever the length   *)
(* of the result array, one longer than the limit asked for included.       *)
SlotsWithinCapacity ==
    call.op = "getUpdates" =>
        \A i \in At("slot") : Log[i].n \in Slots

\* the same for the arrays of no more than HANDLE_MESSAGES elements
SlotsWithinCapacityInLimit ==
    (call.op = "getUpdates" /\ Len(call.batch) <= HANDLE_MESSAGES) =>
        \A i \in At("slot") : Log[i].n \in Slots

-----------------------------------------------------------------------------
\* the read goes on: the test of its outer loop has just been passed
GoesOn == task.pc = "outer" /\ task'.pc = "inner"

\* fewer than ms milliseconds have passed since the read began
Within(ms) == ULongLess(ULongSub(millis, task.now), ULongOf(ms))

(* C27: with longPoll > 0 the read of a long-poll getUpdates request is     *)
(* given more time than the read of an ordinary call: only the long-poll    *)
(* request has longPoll seconds added to waitForResponse, so that the read  *)
(* of an ordinary call goes on only within waitForResponse milliseconds.    *)
OnlyLongPollsWaitLonger ==
    [][ GoesOn =>
            IF task.kind = "getUpdates"
            THEN Within(task.longPoll * 1000 + waitForResponse)
            ELSE Within(waitForResponse) ]_vars

\* the same for a bot whose longPoll is 0
WaitWithoutLongPoll ==
    [][ (GoesOn /\ task.longPoll = 0) =>
            IF task.kind = "getUpdates"
            THEN Within(task.longPoll * 1000 + waitForResponse)
            ELSE Within(waitForResponse) ]_vars

\* the read of a long-poll request goes on within its longer time
LongPollsWaitLonger ==
    [][ (GoesOn /\ task.kind = "getUpdates") =>
            Within(task.longPoll * 1000 + waitForResponse) ]_vars

====
